---- MODULE Spec2Model ----
(***************************************************************************)
(* Budget enforcement and spend ledger of the ad budget management system *)
(* (ads/services.py, ads/models.py).                                      *)
(*                                                                         *)
(* Money is counted in the smallest persisted unit (DecimalField with two  *)
(* decimal places), time in ticks of the scheduler clock.  The database is *)
(* the pair (db, ledger); Python Campaign instances are separate records  *)
(* (obj) that the services mutate and then write back with                 *)
(* save(update_fields=...).                                                *)
(***************************************************************************)
EXTENDS Integers, Sequences, FiniteSets, TLC

\* ------------------------------------------------------------------ bounds
MaxAmount == 2
MaxSpend == 4
MaxLedger == 2
MaxNow == 6
MaxCoreNow == 3
NumCampaigns == 3
MaxRaceNow == 1
TicksPerDay == 3
DaysPerMonth == 2

\* ------------------------------------------------------- program constants
\* A NULL column / Python None (models.py: null=True).
NULL == -1
\* settings.DEFAULT_BUDGET_CHECK_FREQUENCY (15 minutes), as one tick.
DEFAULT_BUDGET_CHECK_FREQUENCY == 1
\* check_spend_and_pause_service: batch_size (100 rows), scaled to 2 rows.
batch_size == 2

DAYS_OF_WEEK == <<"mon", "tue", "wed", "thu", "fri", "sat", "sun">>

Amounts == (-1)..MaxAmount

\* Brand: the two budgets (read-only to the services).
Brands == {[daily_budget |-> 2, monthly_budget |-> 3]}

\* DaypartingSchedule table: id -> row; days_of_week is the comma-separated
\* string, kept as the list of its pieces ("mon,tue", "mon, tue", "xyz,tue",
\* "xyz"); rows 2 to 4 cover the whole day.
DaypartingSchedule ==
    <<[start_time |-> 1, end_time |-> 1, days_of_week |-> <<"mon", "tue">>],
      [start_time |-> 0, end_time |-> TicksPerDay - 1,
       days_of_week |-> <<"mon", " tue">>],
      [start_time |-> 0, end_time |-> TicksPerDay - 1,
       days_of_week |-> <<"xyz", "tue">>],
      [start_time |-> 0, end_time |-> TicksPerDay - 1, days_of_week |-> <<"xyz">>]>>

\* Campaign rows as the administrative workflow creates them:
\* (daily_spend, monthly_spend, is_active).
SeedStates ==
    {<<0, 0, TRUE>>, <<2, 3, TRUE>>, <<3, 3, TRUE>>, <<1, 4, FALSE>>, <<2, 2, FALSE>>}

Campaign(seed, sched) ==
    [daily_spend |-> seed[1], monthly_spend |-> seed[2], is_active |-> seed[3],
     dayparting_schedule |-> sched,
     last_daily_reset |-> NULL, last_monthly_reset |-> NULL,
     budget_check_frequency_minutes |-> NULL, last_budget_check |-> NULL]

SpendRecord(c, amount, type, reference_id, dsb, dsa, msb, msa) ==
    [campaign |-> c, amount |-> amount, type |-> type, source |-> "system",
     reference_id |-> reference_id,
     description |-> IF type = "budget_reset" THEN "budget reset" ELSE "",
     daily_spend_before |-> dsb, daily_spend_after |-> dsa,
     monthly_spend_before |-> msb, monthly_spend_after |-> msa]

\* utils.TaskMetrics; on = FALSE stands for metrics=None.
TaskMetrics ==
    [on |-> TRUE, campaigns_processed |-> 0, campaigns_paused |-> 0,
     campaigns_reactivated |-> 0, campaigns_reset |-> 0, errors |-> 0]
NoMetrics == [TaskMetrics EXCEPT !.on = FALSE]

Count(m, f) == IF m.on THEN [m EXCEPT ![f] = @ + 1] ELSE m

VARIABLES
    db,       \* Campaign table: id -> row
    ledger,   \* SpendRecord table, in insertion order
    brand,    \* the Brand row of the campaigns
    now,      \* timezone.now(), in ticks
    proc,     \* the local state of each process that is inside a service
    marks,    \* per campaign, the ledger length at its last daily/monthly reset
    last      \* the last completed call or step: its inputs and outcome

vars == <<db, ledger, brand, now, proc, marks, last>>

\* ------------------------------------------------------------------- time
today(t) == (t \div TicksPerDay) + 1
first_of_month_same_day(d) == d
first_of_month(d) == d - ((d - 1) % DaysPerMonth)
weekday(d) == DAYS_OF_WEEK[((d - 1) % 7) + 1]
time_of(t) == t % TicksPerDay

\* ------------------------------------------------------------ persistence
save_nothing(camp, c, obj, fields) == camp
save_all(camp, c, obj, fields) == [camp EXCEPT ![c] = obj]
\* Model.save(update_fields=fields): UPDATE of the named columns of row c
\* with the instance's values.
save(camp, c, obj, fields) ==
    [camp EXCEPT ![c] = [f \in DOMAIN camp[c] |->
                            IF f \in fields THEN obj[f] ELSE camp[c][f]]]

create_replacing(led, rec) == <<rec>>
create_unless_duplicate(led, rec) ==
    IF \E i \in DOMAIN led :
          /\ led[i].type = rec.type
          /\ led[i].campaign = rec.campaign
          /\ led[i].amount = rec.amount
          /\ led[i].reference_id = rec.reference_id
    THEN led
    ELSE Append(led, rec)
\* SpendRecord.objects.create: INSERT.
create(led, rec) == Append(led, rec)

\* transaction.atomic(): the block's writes are kept when it exits normally
\* and discarded when it exits by an exception or marked for rollback.
atomic_keeps(before, after, raised) == after
atomic(before, after, raised) == IF raised THEN before ELSE after

Store(camp, led) == [camp |-> camp, led |-> led]

\* SpendRecord.save(**kwargs) on the stored record i (self.pk is set): given
\* tells whether update_fields was passed.  Without it kwargs.get returns [],
\* the test passes and Model.save writes every column of the instance; with
\* an empty list Model.save writes nothing.
allowed_update_fields == {"updated_at", "description"}
SpendRecord_save(led, i, obj, update_fields) ==
    IF update_fields.given /\ ~(update_fields.fields \subseteq allowed_update_fields)
    THEN [led |-> led, raised |-> TRUE]
    ELSE [led |-> [led EXCEPT ![i] =
                     [f \in DOMAIN led[i] |->
                        IF ~update_fields.given \/ f \in update_fields.fields
                        THEN obj[f] ELSE led[i][f]]],
          raised |-> FALSE]

\* What a service call leaves behind: the database, the instance it was
\* given, its metrics, whether it raised, and its return value.
Result(st, obj, m, raised, ret) ==
    [camp |-> st.camp, led |-> st.led, obj |-> obj, m |-> m,
     raised |-> raised, ret |-> ret]

\* ------------------------------------------------------- BudgetEnforcer
over_daily_budget(obj) == obj.daily_spend > brand.daily_budget
over_budget_or_equal(obj) ==
    \/ obj.daily_spend >= brand.daily_budget
    \/ obj.monthly_spend >= brand.monthly_budget
over_budget(obj) ==
    \/ obj.daily_spend > brand.daily_budget
    \/ obj.monthly_spend > brand.monthly_budget

pause_never(st, c, obj, m, fail) == Result(st, obj, m, FALSE, FALSE)
pause_or_resume(st, c, obj, m, fail) ==
    LET set == [obj EXCEPT !.is_active = ~over_budget(obj)]
    IN IF fail
       THEN Result(atomic(st, st, TRUE), set, Count(m, "errors"), TRUE, FALSE)
       ELSE Result(Store(save(st.camp, c, set, {"is_active"}), st.led), set, m,
                   FALSE, ~set.is_active)
\* services.pause_if_budget_exceeded(campaign, metrics); fail: the save of
\* is_active raises.
pause_if_budget_exceeded(st, c, obj, m, fail) ==
    IF over_budget(obj)
    THEN LET paused == [obj EXCEPT !.is_active = FALSE]
             after == Store(save(st.camp, c, paused, {"is_active"}), st.led)
         IN IF fail
            THEN Result(atomic(st, st, TRUE), paused, Count(m, "errors"), TRUE, FALSE)
            ELSE Result(atomic(st, after, FALSE), paused,
                        Count(m, "campaigns_paused"), FALSE, TRUE)
    ELSE Result(st, obj, m, FALSE, FALSE)

\* ---------------------------------------------------------- SpendLedger
TrackFailures == {"none", "save", "create", "pause"}

spent_daily_only(obj, amount) ==
    [obj EXCEPT !.daily_spend = obj.daily_spend + amount]
\* track_spend: the in-memory update of the two counters.
spent(obj, amount) ==
    [obj EXCEPT !.daily_spend = obj.daily_spend + amount,
                !.monthly_spend = obj.monthly_spend + amount]

\* services.track_spend(campaign, amount) with the other arguments at their
\* defaults (reference_id None); fail names the statement of the atomic block
\* that raises, if any.
track_spend(st, c, obj, amount, fail) ==
    LET after == spent(obj, amount)
        saved == Store(save(st.camp, c, after, {"daily_spend", "monthly_spend"}),
                       st.led)
        recorded == Store(saved.camp,
                          create(saved.led,
                                 SpendRecord(c, amount, "impression", NULL,
                                             obj.daily_spend, after.daily_spend,
                                             obj.monthly_spend, after.monthly_spend)))
        checked == pause_if_budget_exceeded(recorded, c, after, NoMetrics,
                                            fail = "pause")
    IN CASE fail = "save" ->
              Result(atomic(st, st, TRUE), after, NoMetrics, TRUE, FALSE)
         [] fail = "create" ->
              Result(atomic(st, saved, TRUE), after, NoMetrics, TRUE, FALSE)
         [] OTHER ->
              Result(atomic(st, Store(checked.camp, checked.led), checked.raised),
                     checked.obj, NoMetrics, checked.raised, FALSE)

\* ---------------------------------------------------- periodic check
\* The ids of the rows a filter keeps, in primary-key order.
Ids(camp, keep(_)) ==
    SelectSeq([i \in 1..Cardinality(DOMAIN camp) |-> i], LAMBDA c : keep(camp[c]))

Min(a, b) == IF a < b THEN a ELSE b

\* campaign.budget_check_frequency_minutes or settings.DEFAULT_...: None and
\* 0 are both falsy.
frequency(obj) ==
    IF obj.budget_check_frequency_minutes = NULL
       \/ obj.budget_check_frequency_minutes = 0
    THEN DEFAULT_BUDGET_CHECK_FREQUENCY
    ELSE obj.budget_check_frequency_minutes

is_due_always(obj, t) == TRUE
is_due_first_time(obj, t) == obj.last_budget_check = NULL
is_due_late(obj, t) ==
    obj.last_budget_check = NULL
    \/ t > obj.last_budget_check + frequency(obj)
\* check_spend_and_pause_service, lines 131-134: a missing last_budget_check
\* is replaced by now - freq.
is_due(obj, t) ==
    LET freq == frequency(obj)
        last_check == IF obj.last_budget_check = NULL THEN t - freq
                      ELSE obj.last_budget_check
    IN t >= last_check + freq

\* check_spend_and_pause_service, lines 136: the threshold check of a due
\* campaign; bad: the campaigns whose save of is_active raises.
check_pause(st, c, obj, m, bad) ==
    pause_if_budget_exceeded(st, c, obj, m, c \in bad)

\* check_spend_and_pause_service, lines 137-138: stamp last_budget_check.
check_stamp(st, c, obj, m, t) ==
    LET stamped == [obj EXCEPT !.last_budget_check = t]
    IN Result(Store(save(st.camp, c, stamped, {"last_budget_check"}), st.led),
              stamped, m, FALSE, FALSE)

\* The loop body of check_spend_and_pause_service for one campaign of a page.
check_campaign(st, c, obj, m, bad, t) ==
    LET counted == Count(m, "campaigns_processed")
    IN IF is_due(obj, t)
       THEN LET p == check_pause(st, c, obj, counted, bad)
            IN IF p.raised
               THEN p
               ELSE check_stamp(Store(p.camp, p.led), c, p.obj, p.m, t)
       ELSE Result(st, obj, counted, FALSE, FALSE)

RECURSIVE check_rows(_, _, _, _, _, _)
\* for campaign in batch: the rows of the page are those fetched when the
\* page was sliced (camp0).
check_rows(st, ids, camp0, m, bad, t) ==
    IF ids = <<>>
    THEN Result(st, <<>>, m, FALSE, FALSE)
    ELSE LET r == check_campaign(st, Head(ids), camp0[Head(ids)], m, bad, t)
         IN IF r.raised
            THEN r
            ELSE check_rows(Store(r.camp, r.led), Tail(ids), camp0, r.m, bad, t)

RECURSIVE check_pages(_, _, _, _, _, _)
\* for i in range(0, count, batch_size): active_campaigns[i : i + batch_size]
\* is a new query on the current table.
check_pages(st, i, count, m, bad, t) ==
    IF i >= count
    THEN Result(st, <<>>, m, FALSE, FALSE)
    ELSE LET active == Ids(st.camp, LAMBDA row : row.is_active)
             page == SubSeq(active, i + 1, Min(i + batch_size, Len(active)))
             r == check_rows(st, page, st.camp, m, bad, t)
         IN IF r.raised
            THEN r
            ELSE check_pages(Store(r.camp, r.led), i + batch_size, count, r.m, bad, t)

\* services.check_spend_and_pause_service(metrics)
check_spend_and_pause_service(st, m, bad, t) ==
    LET count == Len(Ids(st.camp, LAMBDA row : row.is_active))
        r == check_pages(st, 0, count, m, bad, t)
    IN IF r.raised
       THEN Result(Store(r.camp, r.led), r.obj, Count(r.m, "errors"), TRUE, FALSE)
       ELSE r

\* ------------------------------------------------------- ResetScheduler
\* services.create_spend_record_for_reset(campaign, reset_type, amount);
\* fail: the INSERT raises a database error, which is logged and swallowed.
\* Model.save has by then marked the enclosing atomic block for rollback
\* (marked, in the callers): the block rolls back when it exits, without
\* raising.
create_spend_record_for_reset(led, c, obj, reset_type, amount, fail, t) ==
    IF fail
    THEN led
    ELSE create(led,
                SpendRecord(c, amount, "budget_reset", <<reset_type, today(t)>>,
                            obj.daily_spend,
                            IF reset_type = "monthly" THEN obj.daily_spend ELSE 0,
                            obj.monthly_spend,
                            IF reset_type = "daily" THEN obj.monthly_spend ELSE 0))

within_daily_budget(obj) == obj.daily_spend <= brand.daily_budget
within_no_budget(obj) == FALSE
within_budgets_unscheduled(obj) ==
    /\ obj.dayparting_schedule = NULL
    /\ obj.daily_spend <= brand.daily_budget
    /\ obj.monthly_spend <= brand.monthly_budget
\* reset_daily_spend, reset_monthly_spend, enforce_dayparting: the budget part
\* of the reactivation condition.
within_budgets(obj) ==
    /\ obj.daily_spend <= brand.daily_budget
    /\ obj.monthly_spend <= brand.monthly_budget

reset_both_campaign(st, c, obj, m, bad, auditBad, t) ==
    LET zeroed == [obj EXCEPT !.daily_spend = 0, !.monthly_spend = 0,
                              !.last_daily_reset = today(t)]
    IN Result(Store([st.camp EXCEPT ![c] = zeroed], st.led), zeroed,
              Count(m, "campaigns_reset"), FALSE, FALSE)
\* The atomic block of reset_daily_spend for one campaign; bad: the campaigns
\* whose save raises, auditBad: those whose audit insert raises.
reset_daily_campaign(st, c, obj, m, bad, auditBad, t) ==
    LET daily_spend_before == obj.daily_spend
        zeroed == [obj EXCEPT !.daily_spend = 0, !.last_daily_reset = today(t)]
        reactivated == ~zeroed.is_active /\ within_budgets(zeroed)
        reset == IF reactivated THEN [zeroed EXCEPT !.is_active = TRUE] ELSE zeroed
        m1 == IF reactivated THEN Count(m, "campaigns_reactivated") ELSE m
        saved == save(st.camp, c, reset,
                      {"daily_spend", "is_active", "last_daily_reset"})
        led == IF daily_spend_before > 0
               THEN create_spend_record_for_reset(st.led, c, reset, "daily",
                                                  daily_spend_before, c \in auditBad, t)
               ELSE st.led
        marked == daily_spend_before > 0 /\ c \in auditBad
    IN IF c \in bad
       THEN Result(atomic(st, st, TRUE), reset, m1, TRUE, FALSE)
       ELSE Result(atomic(st, Store(saved, led), marked), reset,
                   Count(m1, "campaigns_reset"), FALSE, reactivated)

\* The atomic block of reset_monthly_spend for one campaign.
reset_monthly_campaign(st, c, obj, m, bad, auditBad, t) ==
    LET monthly_spend_before == obj.monthly_spend
        zeroed == [obj EXCEPT !.monthly_spend = 0,
                              !.last_monthly_reset = first_of_month(today(t))]
        reactivated == ~zeroed.is_active /\ within_budgets(zeroed)
        reset == IF reactivated THEN [zeroed EXCEPT !.is_active = TRUE] ELSE zeroed
        m1 == IF reactivated THEN Count(m, "campaigns_reactivated") ELSE m
        saved == save(st.camp, c, reset,
                      {"monthly_spend", "is_active", "last_monthly_reset"})
        led == IF monthly_spend_before > 0
               THEN create_spend_record_for_reset(st.led, c, reset, "monthly",
                                                  monthly_spend_before, c \in auditBad, t)
               ELSE st.led
        marked == monthly_spend_before > 0 /\ c \in auditBad
    IN IF c \in bad
       THEN Result(atomic(st, st, TRUE), reset, m1, TRUE, FALSE)
       ELSE Result(atomic(st, Store(saved, led), marked), reset,
                   Count(m1, "campaigns_reset"), FALSE, reactivated)

reset_campaign(kind, st, c, obj, m, bad, auditBad, t) ==
    IF kind = "daily"
    THEN reset_daily_campaign(st, c, obj, m, bad, auditBad, t)
    ELSE reset_monthly_campaign(st, c, obj, m, bad, auditBad, t)

RECURSIVE reset_rows(_, _, _, _, _, _, _, _)
\* for campaign in <queryset>: the rows are those the query returned (camp0);
\* an exception leaves the loop.
reset_rows(kind, st, ids, camp0, m, bad, auditBad, t) ==
    IF ids = <<>>
    THEN Result(st, <<>>, m, FALSE, FALSE)
    ELSE LET r == reset_campaign(kind, st, Head(ids), camp0[Head(ids)], m,
                                 bad, auditBad, t)
         IN IF r.raised
            THEN Result(Store(r.camp, r.led), r.obj, Count(r.m, "errors"), TRUE, FALSE)
            ELSE reset_rows(kind, Store(r.camp, r.led), Tail(ids), camp0, r.m,
                            bad, auditBad, t)

stale_daily_none(camp, t) == <<>>
stale_daily_all(camp, t) == Ids(camp, LAMBDA row : TRUE)
\* Campaign.objects.exclude(last_daily_reset=today)
stale_daily(camp, t) == Ids(camp, LAMBDA row : row.last_daily_reset # today(t))

\* Campaign.objects.exclude(last_monthly_reset=first_of_month)
stale_monthly(camp, t) ==
    Ids(camp, LAMBDA row : row.last_monthly_reset # first_of_month(today(t)))

\* services.reset_daily_spend(metrics)
reset_daily_spend(st, m, bad, auditBad, t) ==
    reset_rows("daily", st, stale_daily(st.camp, t), st.camp, m, bad, auditBad, t)

\* services.reset_monthly_spend(metrics)
reset_monthly_spend(st, m, bad, auditBad, t) ==
    reset_rows("monthly", st, stale_monthly(st.camp, t), st.camp, m, bad, auditBad, t)

\* --------------------------------------------------- DaypartingEvaluator
\* str.strip() on the pieces of a days_of_week string.
strip(d) ==
    CASE d = " mon" -> "mon"
      [] d = " tue" -> "tue"
      [] OTHER -> d

InSeq(x, seq) == \E i \in DOMAIN seq : seq[i] = x

is_now_in_window_same_day(window, t) ==
    /\ InSeq(weekday(today(t)), window.days_of_week)
    /\ window.start_time <= time_of(t) /\ time_of(t) <= window.end_time
\* services.is_now_in_window(window)
is_now_in_window(window, t) ==
    LET now_time == time_of(t)
        now_day == weekday(today(t))
        start == window.start_time
        end == window.end_time
    IN IF ~InSeq(now_day, window.days_of_week)
       THEN FALSE
       ELSE IF start <= end
            THEN start <= now_time /\ now_time <= end
            ELSE now_time >= start \/ now_time <= end

\* The window enforce_dayparting builds from a schedule row.
window_of(sched) ==
    [start_time |-> sched.start_time, end_time |-> sched.end_time,
     days_of_week |-> SelectSeq(sched.days_of_week,
                                LAMBDA d : InSeq(strip(d), DAYS_OF_WEEK))]

\* The loop body of enforce_dayparting for one campaign; bad: the campaigns
\* whose save raises.
dayparting_campaign(st, c, obj, m, bad, t) ==
    LET counted == Count(m, "campaigns_processed")
        window == window_of(DaypartingSchedule[obj.dayparting_schedule])
        on == [obj EXCEPT !.is_active = TRUE]
        off == [obj EXCEPT !.is_active = FALSE]
    IN IF is_now_in_window(window, t)
       THEN IF ~obj.is_active /\ within_budgets(obj)
            THEN IF c \in bad
                 THEN Result(st, on, counted, TRUE, FALSE)
                 ELSE Result(Store(save(st.camp, c, on, {"is_active"}), st.led), on,
                             Count(counted, "campaigns_reactivated"), FALSE, TRUE)
            ELSE Result(st, obj, counted, FALSE, FALSE)
       ELSE IF obj.is_active
            THEN IF c \in bad
                 THEN Result(st, off, counted, TRUE, FALSE)
                 ELSE Result(Store(save(st.camp, c, off, {"is_active"}), st.led), off,
                             Count(counted, "campaigns_paused"), FALSE, TRUE)
            ELSE Result(st, obj, counted, FALSE, FALSE)

RECURSIVE dayparting_rows(_, _, _, _, _, _)
dayparting_rows(st, ids, camp0, m, bad, t) ==
    IF ids = <<>>
    THEN Result(st, <<>>, m, FALSE, FALSE)
    ELSE LET r == dayparting_campaign(st, Head(ids), camp0[Head(ids)], m, bad, t)
         IN IF r.raised
            THEN Result(Store(r.camp, r.led), r.obj, Count(r.m, "errors"), TRUE, FALSE)
            ELSE dayparting_rows(Store(r.camp, r.led), Tail(ids), camp0, r.m, bad, t)

\* services.enforce_dayparting(metrics)
enforce_dayparting(st, m, bad, t) ==
    dayparting_rows(st, Ids(st.camp, LAMBDA row : row.dayparting_schedule # NULL),
                    st.camp, m, bad, t)

\* ----------------------------------------------------------------- calls
\* seq alternates so that a call that changes nothing is still a step.
NoCall ==
    [op |-> "none", c |-> NULL, amount |-> 0, fail |-> "none", obj |-> <<>>,
     m |-> NoMetrics, raised |-> FALSE, ret |-> FALSE, log |-> <<>>, seq |-> 0]

Call(op, c, amount, fail, r) ==
    [op |-> op, c |-> c, amount |-> amount, fail |-> fail, obj |-> r.obj, m |-> r.m,
     raised |-> r.raised, ret |-> r.ret, log |-> <<>>, seq |-> 1 - last.seq]

InRange(v) == v >= -1 /\ v <= MaxSpend

Procs == {1, 2}

\* A process that is in no service call; task and retries are the Celery
\* request it carries when it is a worker running a periodic task.
Idle ==
    [pc |-> "idle", obj |-> <<>>, rows |-> <<>>, todo |-> <<>>, t |-> 0,
     m |-> NoMetrics, i |-> 0, count |-> 0, task |-> "none", retries |-> 0]

\* A reset committed for campaign c exactly when its marker changed.
Marks(camp) ==
    [c \in DOMAIN db |->
       [daily |-> IF camp[c].last_daily_reset # db[c].last_daily_reset
                  THEN Len(ledger) ELSE marks[c].daily,
        monthly |-> IF camp[c].last_monthly_reset # db[c].last_monthly_reset
                    THEN Len(ledger) ELSE marks[c].monthly]]

Campaigns == DOMAIN db

\* The tables after the administrative workflow created one campaign.
Init ==
    /\ brand \in Brands
    /\ db \in [{1} -> {Campaign(seed, sched) :
                         seed \in SeedStates,
                         sched \in {1, NULL}}]
    /\ ledger = <<>>
    /\ now = 0
    /\ proc = [p \in Procs |-> Idle]
    /\ marks = [c \in DOMAIN db |-> [daily |-> 0, monthly |-> 0]]
    /\ last = NoCall

\* A caller fetches the campaign and records a spend event on it.
TrackSpend(c, amount, fail) ==
    /\ Len(ledger) < MaxLedger
    /\ InRange(db[c].daily_spend + amount)
    /\ InRange(db[c].monthly_spend + amount)
    /\ LET r == track_spend(Store(db, ledger), c, db[c], amount, fail)
       IN /\ db' = r.camp
          /\ ledger' = r.led
          /\ last' = Call("track_spend", c, amount, fail, r)
    /\ marks' = Marks(db')
    /\ UNCHANGED <<brand, now, proc>>

\* A caller fetches the campaign and runs the threshold check on it.
PauseIfBudgetExceeded(c, fail) ==
    /\ LET r == pause_if_budget_exceeded(Store(db, ledger), c, db[c], TaskMetrics, fail)
       IN /\ db' = r.camp
          /\ ledger' = r.led
          /\ last' = Call("pause_if_budget_exceeded", c, 0, IF fail THEN "save" ELSE "none", r)
    /\ marks' = Marks(db')
    /\ UNCHANGED <<brand, now, proc>>

\* The scheduler runs the periodic budget check.
CheckSpendAndPause(bad) ==
    /\ LET r == check_spend_and_pause_service(Store(db, ledger), TaskMetrics, bad, now)
       IN /\ db' = r.camp
          /\ ledger' = r.led
          /\ last' = Call("check_spend_and_pause_service", NULL, 0, IF bad = {} THEN "none" ELSE "save", r)
    /\ marks' = Marks(db')
    /\ UNCHANGED <<brand, now, proc>>

\* The scheduler runs the daily reset.
ResetDailySpend(bad, auditBad) ==
    /\ LET r == reset_daily_spend(Store(db, ledger), TaskMetrics, bad, auditBad, now)
       IN /\ Len(r.led) <= MaxLedger
          /\ db' = r.camp
          /\ ledger' = r.led
          /\ last' = Call("reset_daily_spend", NULL, 0,
                          IF auditBad # {} THEN "audit"
                          ELSE IF bad # {} THEN "save" ELSE "none", r)
    /\ marks' = Marks(db')
    /\ UNCHANGED <<brand, now, proc>>

\* The scheduler runs the monthly reset.
ResetMonthlySpend(bad, auditBad) ==
    /\ LET r == reset_monthly_spend(Store(db, ledger), TaskMetrics, bad, auditBad, now)
       IN /\ Len(r.led) <= MaxLedger
          /\ db' = r.camp
          /\ ledger' = r.led
          /\ last' = Call("reset_monthly_spend", NULL, 0,
                          IF auditBad # {} THEN "audit"
                          ELSE IF bad # {} THEN "save" ELSE "none", r)
    /\ marks' = Marks(db')
    /\ UNCHANGED <<brand, now, proc>>

\* The scheduler runs the dayparting sweep.
EnforceDayparting(bad) ==
    /\ LET r == enforce_dayparting(Store(db, ledger), TaskMetrics, bad, now)
       IN /\ db' = r.camp
          /\ ledger' = r.led
          /\ last' = Call("enforce_dayparting", NULL, 0, IF bad = {} THEN "none" ELSE "save", r)
    /\ marks' = Marks(db')
    /\ UNCHANGED <<brand, now, proc>>

Tick ==
    /\ now < MaxNow
    /\ now' = now + 1
    /\ last' = [NoCall EXCEPT !.seq = 1 - last.seq]
    /\ UNCHANGED <<db, ledger, brand, proc, marks>>

Spend == \E c \in Campaigns, a \in Amounts, f \in TrackFailures : TrackSpend(c, a, f)
Pause == \E c \in Campaigns, f \in BOOLEAN : PauseIfBudgetExceeded(c, f)
Check == \E bad \in SUBSET Campaigns : CheckSpendAndPause(bad)
Daily == \E bad \in SUBSET Campaigns, auditBad \in SUBSET Campaigns :
            ResetDailySpend(bad, auditBad)
Monthly == \E bad \in SUBSET Campaigns, auditBad \in SUBSET Campaigns :
              ResetMonthlySpend(bad, auditBad)
Daypart == \E bad \in SUBSET Campaigns : EnforceDayparting(bad)

CoreTick == now < MaxCoreNow /\ Tick

\* Every service call, one at a time.
Next == Spend \/ Pause \/ Check \/ Daily \/ Monthly \/ Daypart \/ Tick
Spec == Init /\ [][Next]_vars

\* The ingest path: spend events and threshold checks on one campaign.
NextSpend == Spend \/ Pause
SpecSpend == Init /\ [][NextSpend]_vars

Positive == {a \in Amounts : a > 0}

\* The resets, with spend recorded between them as the days pass, on a
\* campaign that has no dayparting schedule.
Ingest == \E c \in Campaigns, a \in Positive : TrackSpend(c, a, "none")
InitReset == Init /\ \A c \in Campaigns : db[c].dayparting_schedule = NULL
NextReset == Ingest \/ Daily \/ Monthly \/ Tick
SpecReset == InitReset /\ [][NextReset]_vars

\* A caller loads the stored record i, assigns amount and description on the
\* instance and saves it, with or without update_fields.
UpdateFields ==
    {[given |-> FALSE, fields |-> {}]} \cup
    {[given |-> TRUE, fields |-> F] : F \in SUBSET {"amount", "description"}}
Descriptions == {"", "edited"}

SaveSpendRecord(i, amount, description, update_fields) ==
    /\ LET obj == [ledger[i] EXCEPT !.amount = amount, !.description = description]
           r == SpendRecord_save(ledger, i, obj, update_fields)
       IN /\ ledger' = r.led
          /\ last' = Call("SpendRecord.save", i, amount, "none",
                          Result(Store(db, r.led), obj, NoMetrics, r.raised, FALSE))
    /\ marks' = Marks(db)
    /\ UNCHANGED <<db, brand, now, proc>>

Edit == \E i \in DOMAIN ledger, a \in Positive, d \in Descriptions, u \in UpdateFields :
           SaveSpendRecord(i, a, d, u)

\* The ledger: records created by spend events and later saved again.
NextLedger == Ingest \/ Edit
SpecLedger == InitReset /\ [][NextLedger]_vars

\* The periodic check on one campaign that may carry a frequency override of
\* two ticks and may have been checked at time 0, with spend between the runs.
Overrides == {NULL, 2}
InitCheck ==
    /\ brand \in Brands
    /\ db \in [{1} -> {[Campaign(seed, NULL) EXCEPT
                           !.budget_check_frequency_minutes = f,
                           !.last_budget_check = l] :
                         seed \in SeedStates, f \in Overrides, l \in {NULL, 0}}]
    /\ ledger = <<>>
    /\ now = 0
    /\ proc = [p \in Procs |-> Idle]
    /\ marks = [c \in DOMAIN db |-> [daily |-> 0, monthly |-> 0]]
    /\ last = NoCall
NextCheck == Ingest \/ Check \/ Tick
SpecCheck == InitCheck /\ [][NextCheck]_vars

\* The periodic check as time advances, for every frequency the field allows
\* (unset, 0, 2) and a check stamp that is unset, past or ahead of the clock.
\* The clock advances up to its bound, and the job, which can run in every
\* state, is treated fairly: it runs again and again.
AllOverrides == {NULL, 0, 2}
InitThrottle ==
    /\ brand \in Brands
    /\ db \in [{1} -> {[Campaign(seed, NULL) EXCEPT
                           !.budget_check_frequency_minutes = f,
                           !.last_budget_check = l] :
                         seed \in SeedStates, f \in AllOverrides, l \in {NULL, 0, 2}}]
    /\ ledger = <<>>
    /\ now = 0
    /\ proc = [p \in Procs |-> Idle]
    /\ marks = [c \in DOMAIN db |-> [daily |-> 0, monthly |-> 0]]
    /\ last = NoCall
PeriodicCheck ==
    /\ \E r \in {check_spend_and_pause_service(Store(db, ledger), TaskMetrics, {}, now)} :
          /\ db' = r.camp
          /\ ledger' = r.led
          /\ last' = Call("check_spend_and_pause_service", NULL, 0, "none", r)
    /\ marks' = Marks(db')
    /\ UNCHANGED <<brand, now, proc>>
NextThrottle == Ingest \/ PeriodicCheck \/ Tick
SpecThrottle ==
    /\ InitThrottle
    /\ [][NextThrottle]_vars
    /\ WF_vars(Tick)
    /\ []<><<PeriodicCheck>>_vars

\* The resets among periodic checks and spend, on campaigns with and without
\* a check stamp.
NextFrame == Ingest \/ Check \/ Daily \/ Monthly \/ CoreTick
SpecFrame == InitThrottle /\ [][NextFrame]_vars

\* The same runs of the periodic check, with no fairness.
SpecInterval == InitThrottle /\ [][NextThrottle]_vars

\* The batch jobs over several campaigns, each new or over budget, more than
\* one page of the periodic check.
BatchSeeds == {<<0, 0, TRUE>>, <<3, 3, TRUE>>}
InitBatch ==
    /\ brand \in Brands
    /\ db \in [1..NumCampaigns -> {Campaign(seed, NULL) : seed \in BatchSeeds}]
    /\ ledger = <<>>
    /\ now = 0
    /\ proc = [p \in Procs |-> Idle]
    /\ marks = [c \in DOMAIN db |-> [daily |-> 0, monthly |-> 0]]
    /\ last = NoCall
\* A run in which the save of at most one campaign raises.
OneFailure == {{}} \cup {{c} : c \in Campaigns}
BatchCheck == \E bad \in OneFailure : CheckSpendAndPause(bad)
BatchDaily == \E bad \in OneFailure : ResetDailySpend(bad, {})
NextBatch == BatchCheck \/ BatchDaily \/ CoreTick
SpecBatch == InitBatch /\ [][NextBatch]_vars

\* The dayparting sweep at every time of day, with spend between the sweeps.
NextDaypart == Ingest \/ Daypart \/ Tick
SpecDaypart == Init /\ [][NextDaypart]_vars

\* The dayparting sweep over several days, on a campaign whose schedule
\* writes its days with a space after the comma or names no weekday.
InitDays ==
    /\ brand \in Brands
    /\ db \in [{1} -> {Campaign(seed, sched) :
                         seed \in SeedStates,
                         sched \in DOMAIN DaypartingSchedule \ {1}}]
    /\ ledger = <<>>
    /\ now = 0
    /\ proc = [p \in Procs |-> Idle]
    /\ marks = [c \in DOMAIN db |-> [daily |-> 0, monthly |-> 0]]
    /\ last = NoCall
NextDays == Daypart \/ Tick
SpecDays == InitDays /\ [][NextDays]_vars

\* The daily reset job over two campaigns, run again after a run that failed
\* at one of them, with spend recorded between the runs.
InitRetry ==
    /\ brand \in Brands
    /\ db \in [{1, 2} -> {Campaign(seed, NULL) : seed \in BatchSeeds}]
    /\ ledger = <<>>
    /\ now = 0
    /\ proc = [p \in Procs |-> Idle]
    /\ marks = [c \in DOMAIN db |-> [daily |-> 0, monthly |-> 0]]
    /\ last = NoCall
NextRetry == Ingest \/ BatchDaily \/ CoreTick
SpecRetry == InitRetry /\ [][NextRetry]_vars

\* The core operations one at a time on a new campaign that has a dayparting
\* schedule.
InitCore ==
    Init /\ \A c \in Campaigns : db[c] = Campaign(<<0, 0, TRUE>>, 1)
NextCore == Ingest \/ Check \/ Daily \/ Monthly \/ Daypart \/ CoreTick
SpecCore == InitCore /\ [][NextCore]_vars

\* The instances of a row that a caller can hold: the row as fetched, with
\* counters and check stamp that were assigned in memory or have since
\* changed in the table.
Instances(row) ==
    {[row EXCEPT !.daily_spend = d, !.monthly_spend = mo, !.last_budget_check = chk] :
        d \in 0..MaxSpend, mo \in 0..MaxSpend, chk \in {NULL, now}}

\* A caller runs the threshold check on an instance it holds.
PauseInstance(c, obj, fail) ==
    /\ LET r == pause_if_budget_exceeded(Store(db, ledger), c, obj, TaskMetrics, fail)
       IN /\ db' = r.camp
          /\ ledger' = r.led
          /\ last' = Call("pause_if_budget_exceeded", c, 0, IF fail THEN "save" ELSE "none", r)
    /\ marks' = Marks(db')
    /\ UNCHANGED <<brand, now, proc>>

PauseHeld == \E c \in Campaigns, fail \in BOOLEAN :
                \E obj \in Instances(db[c]) : PauseInstance(c, obj, fail)

\* The threshold check on held instances, as time passes.
NextPause == PauseHeld \/ CoreTick
SpecPause == Init /\ [][NextPause]_vars

\* ------------------------------------------------------- periodic tasks
\* RETRY_KWARGS["max_retries"]
max_retries == 5

Tasks ==
    {"check_spend_and_pause_task", "reset_daily_spend_task",
     "reset_monthly_spend_task", "enforce_dayparting_task"}

\* TaskMetrics.log_summary(): the line it writes for the counters.
log_summary(task, m) ==
    [msg |-> "completed", task |-> task,
     processed |-> m.campaigns_processed, paused |-> m.campaigns_paused,
     reactivated |-> m.campaigns_reactivated, reset |-> m.campaigns_reset,
     errors |-> m.errors]

\* The body of a task: the service is called with a new TaskMetrics, which
\* the task neither logs nor returns; the task returns None.
task_body(task, st, bad, t) ==
    LET r == CASE task = "check_spend_and_pause_task" ->
                    check_spend_and_pause_service(st, TaskMetrics, bad, t)
               [] task = "reset_daily_spend_task" ->
                    reset_daily_spend(st, TaskMetrics, bad, {}, t)
               [] task = "reset_monthly_spend_task" ->
                    reset_monthly_spend(st, TaskMetrics, bad, {}, t)
               [] task = "enforce_dayparting_task" ->
                    enforce_dayparting(st, TaskMetrics, bad, t)
    IN [r EXCEPT !.ret = NULL]

\* What the wrapper of celery_task_with_logging_and_retry adds to the outcome
\* r of the task: the log lines for the start and for the outcome.
logged(task, r) ==
    [camp |-> r.camp, led |-> r.led, obj |-> r.obj, m |-> r.m,
     raised |-> r.raised, ret |-> r.ret,
     log |-> <<[msg |-> "Starting", task |-> task],
               [msg |-> IF r.raised THEN "failed" ELSE "Finished successfully",
                task |-> task]>>]
\* The wrapper: it runs the task, logs, and returns its result or re-raises
\* its exception.
wrapper(task, st, bad, t) == logged(task, task_body(task, st, bad, t))

autoretry_swallow(request, raised) ==
    IF ~raised \/ request.retries >= max_retries
    THEN Idle
    ELSE [request EXCEPT !.pc = "retry", !.retries = request.retries + 1]
\* shared_task(autoretry_for=(Exception,), retry_kwargs=RETRY_KWARGS): an
\* exception schedules the task again while request.retries < max_retries,
\* and is the task's failure otherwise.
autoretry(request, raised) ==
    IF ~raised
    THEN Idle
    ELSE IF request.retries < max_retries
         THEN [request EXCEPT !.pc = "retry", !.retries = request.retries + 1]
         ELSE [request EXCEPT !.pc = "failed"]

\* The worker executes a task: a new request sent by the scheduler when no
\* retry is pending, the pending request otherwise.
RunTask(task, bad) ==
    /\ proc[1].pc \in {"idle", "retry", "failed"}
    /\ proc[1].pc = "retry" => task = proc[1].task
    /\ \E r \in {wrapper(task, Store(db, ledger), bad, now)} :
          /\ Len(r.led) <= MaxLedger
          /\ db' = r.camp
          /\ ledger' = r.led
          /\ proc' = [proc EXCEPT ![1] =
                        autoretry(IF proc[1].pc = "retry" THEN proc[1]
                                  ELSE [Idle EXCEPT !.task = task], r.raised)]
          /\ last' = [Call(task, NULL, 0, IF bad = {} THEN "none" ELSE "save", r)
                        EXCEPT !.log = r.log]
    /\ marks' = Marks(db')
    /\ UNCHANGED <<brand, now>>

Job == \E task \in Tasks, bad \in SUBSET Campaigns : RunTask(task, bad)

\* The periodic tasks on one campaign, with spend recorded between them.
InitJob == InitReset
NextJob == Ingest \/ Job \/ CoreTick
SpecJob == InitJob /\ [][NextJob]_vars

\* Spend events of every amount and outcome and the periodic check, on a
\* campaign that is active or paused.
NextIngest == Spend \/ Check \/ CoreTick
SpecIngest == Init /\ [][NextIngest]_vars

\* Every operation, one at a time, the batch jobs with their failures, from
\* tables in which every active campaign is within both budgets and has a
\* dayparting schedule.
InitComply ==
    /\ Init
    /\ \A c \in Campaigns :
          /\ db[c].dayparting_schedule # NULL
          /\ db[c].is_active => /\ db[c].daily_spend <= brand.daily_budget
                                /\ db[c].monthly_spend <= brand.monthly_budget
NextComply == Ingest \/ Check \/ Daily \/ Monthly \/ Daypart \/ CoreTick
SpecComply == InitComply /\ [][NextComply]_vars

\* The dayparting windows: any start and end time of day and any list of the
\* first two days of the week.
Windows ==
    {[start_time |-> a, end_time |-> b, days_of_week |-> d] :
        a \in 0..(TicksPerDay - 1), b \in 0..(TicksPerDay - 1),
        d \in {<<>>, <<"mon">>, <<"tue">>, <<"mon", "tue">>}}

\* A caller asks whether now is in a window.
IsNowInWindow(window) ==
    /\ last' = Call("is_now_in_window", NULL, 0, "none",
                    Result(Store(db, ledger), window, NoMetrics, FALSE,
                           is_now_in_window(window, now)))
    /\ UNCHANGED <<db, ledger, brand, now, proc, marks>>

Window == \E window \in Windows : IsNowInWindow(window)
NextWindow == Window \/ Tick
SpecWindow == InitCore /\ [][NextWindow]_vars

\* ------------------------------------------------------------ interleaving
\* Each process is a caller or a scheduled job run without metrics.  A query or a fetch is one
\* step and copies the rows it returns; every atomic block and every
\* autocommitted save after it is one step, which writes the copied
\* instance's fields.  A step of a running service is recorded in last.
Local(p, pc, rows, todo, t, m) ==
    [proc EXCEPT ![p] = [pc |-> pc, obj |-> <<>>, rows |-> rows, todo |-> todo,
                         t |-> t, m |-> m, i |-> 0, count |-> 0,
                         task |-> "none", retries |-> 0]]

\* A step that writes: last names the service, the campaign and the amount
\* (every step changes proc, so seq need not alternate).
Commit(op, c, amount, r) ==
    /\ db' = r.camp
    /\ ledger' = r.led
    /\ marks' = Marks(r.camp)
    /\ last' = [NoCall EXCEPT !.op = op, !.c = c, !.amount = amount]

Quiet ==
    /\ last' = NoCall
    /\ UNCHANGED <<db, ledger, marks>>

\* A process may enter a service when it is in none.  The processes are
\* interchangeable, so the second enters only while the first is busy.
Free(p) == proc[p].pc = "idle" /\ (p = 1 \/ proc[1].pc # "idle")

\* campaign = Campaign.objects.get(pk=c)
Fetch(p, c) ==
    /\ Free(p)
    /\ proc' = [proc EXCEPT ![p] = [Idle EXCEPT !.pc = "fetched", !.obj = db[c],
                                                !.todo = <<c>>]]
    /\ Quiet
    /\ UNCHANGED <<brand, now>>

\* track_spend(campaign, amount) on the fetched instance.
RaceTrackSpend(p, amount) ==
    /\ proc[p].pc = "fetched"
    /\ Len(ledger) < MaxLedger
    /\ InRange(proc[p].obj.daily_spend + amount)
    /\ InRange(proc[p].obj.monthly_spend + amount)
    /\ LET c == Head(proc[p].todo)
           r == track_spend(Store(db, ledger), c, proc[p].obj, amount, "none")
       IN Commit("track_spend", c, amount, r)
    /\ proc' = [proc EXCEPT ![p] = Idle]
    /\ UNCHANGED <<brand, now>>

\* check_spend_and_pause_service: now, and active_campaigns.count(); with no
\* active campaign the run ends.
CheckCount(p) ==
    /\ Free(p)
    /\ LET count == Len(Ids(db, LAMBDA row : row.is_active))
       IN proc' = [proc EXCEPT ![p] =
                     IF count = 0 THEN Idle
                     ELSE [Idle EXCEPT !.pc = "check_page", !.t = now,
                                       !.count = count]]
    /\ Quiet
    /\ UNCHANGED <<brand, now>>

\* Where the run stands once the rows rest are left of the page at i.
AfterRow(p, rest) ==
    IF rest # <<>>
    THEN [proc[p] EXCEPT !.pc = "check_row", !.obj = <<>>, !.todo = rest]
    ELSE IF proc[p].i + batch_size >= proc[p].count
         THEN Idle
         ELSE [proc[p] EXCEPT !.pc = "check_page", !.obj = <<>>, !.todo = <<>>,
                              !.rows = <<>>, !.i = proc[p].i + batch_size]

\* The query of the page active_campaigns[i : i + batch_size].
CheckPage(p) ==
    /\ proc[p].pc = "check_page"
    /\ LET active == Ids(db, LAMBDA row : row.is_active)
           page == SubSeq(active, proc[p].i + 1,
                          Min(proc[p].i + batch_size, Len(active)))
       IN proc' = [proc EXCEPT ![p] =
                     IF page = <<>> THEN AfterRow(p, <<>>)
                     ELSE [proc[p] EXCEPT !.pc = "check_row", !.rows = db,
                                          !.todo = page]]
    /\ Quiet
    /\ UNCHANGED <<brand, now>>

\* The next campaign of the page: the due test and the threshold check.
CheckRow(p) ==
    /\ proc[p].pc = "check_row"
    /\ LET c == Head(proc[p].todo)
           obj == proc[p].rows[c]
       IN IF is_due(obj, proc[p].t)
          THEN LET r == check_pause(Store(db, ledger), c, obj, proc[p].m, {})
               IN /\ Commit("check_spend_and_pause_service", c, 0, r)
                  /\ proc' = [proc EXCEPT ![p].pc = "check_stamp", ![p].obj = r.obj]
          ELSE /\ proc' = [proc EXCEPT ![p] = AfterRow(p, Tail(proc[p].todo))]
               /\ Quiet
    /\ UNCHANGED <<brand, now>>

\* campaign.save(update_fields=["last_budget_check"])
CheckStamp(p) ==
    /\ proc[p].pc = "check_stamp"
    /\ LET c == Head(proc[p].todo)
           r == check_stamp(Store(db, ledger), c, proc[p].obj, proc[p].m, proc[p].t)
       IN Commit("check_spend_and_pause_service", c, 0, r)
    /\ proc' = [proc EXCEPT ![p] = AfterRow(p, Tail(proc[p].todo))]
    /\ UNCHANGED <<brand, now>>

\* A job that iterates the rows of one query: its state with the rows todo.
Rows(p, pc, todo) ==
    IF todo = <<>> THEN [proc EXCEPT ![p] = Idle]
    ELSE Local(p, pc, db, todo, now, NoMetrics)

\* reset_daily_spend / reset_monthly_spend: today and the stale rows.
ResetQuery(p, kind) ==
    /\ Free(p)
    /\ proc' = IF kind = "daily"
               THEN Rows(p, "daily_row", stale_daily(db, now))
               ELSE Rows(p, "monthly_row", stale_monthly(db, now))
    /\ Quiet
    /\ UNCHANGED <<brand, now>>

\* The atomic block of the next stale row.
ResetRow(p, kind) ==
    /\ proc[p].pc = (IF kind = "daily" THEN "daily_row" ELSE "monthly_row")
    /\ Len(ledger) < MaxLedger
    /\ LET c == Head(proc[p].todo)
           r == reset_campaign(kind, Store(db, ledger), c, proc[p].rows[c],
                               proc[p].m, {}, {}, proc[p].t)
       IN Commit(IF kind = "daily" THEN "reset_daily_spend"
                 ELSE "reset_monthly_spend", c, 0, r)
    /\ proc' = [proc EXCEPT ![p] = IF Tail(proc[p].todo) = <<>> THEN Idle
                                   ELSE [proc[p] EXCEPT !.todo = Tail(proc[p].todo)]]
    /\ UNCHANGED <<brand, now>>

\* enforce_dayparting: the rows that have a schedule.
DaypartQuery(p) ==
    /\ Free(p)
    /\ proc' = Rows(p, "daypart_row",
                    Ids(db, LAMBDA row : row.dayparting_schedule # NULL))
    /\ Quiet
    /\ UNCHANGED <<brand, now>>

\* The next row of the sweep, judged at the current instant.
DaypartRow(p) ==
    /\ proc[p].pc = "daypart_row"
    /\ LET c == Head(proc[p].todo)
           r == dayparting_campaign(Store(db, ledger), c, proc[p].rows[c],
                                    proc[p].m, {}, now)
       IN Commit("enforce_dayparting", c, 0, r)
    /\ proc' = [proc EXCEPT ![p] = IF Tail(proc[p].todo) = <<>> THEN Idle
                                   ELSE [proc[p] EXCEPT !.todo = Tail(proc[p].todo)]]
    /\ UNCHANGED <<brand, now>>

RaceFetch == \E p \in Procs, c \in Campaigns : Fetch(p, c)
RaceSpend == \E p \in Procs, a \in Positive : RaceTrackSpend(p, a)
RaceCheck == \E p \in Procs : CheckCount(p) \/ CheckPage(p) \/ CheckRow(p) \/ CheckStamp(p)
RaceReset == \E p \in Procs, kind \in {"daily", "monthly"} :
                ResetQuery(p, kind) \/ ResetRow(p, kind)
RaceDaypart == \E p \in Procs : DaypartQuery(p) \/ DaypartRow(p)

\* One campaign created with zero counters, active, with a schedule.
InitRace ==
    /\ Init
    /\ db[1] = Campaign(<<0, 0, TRUE>>, 1)

\* timezone.now() advances while the services run.
RaceTick ==
    /\ now < MaxRaceNow
    /\ now' = now + 1
    /\ Quiet
    /\ UNCHANGED <<brand, proc>>

NextRace ==
    RaceFetch \/ RaceSpend \/ RaceCheck \/ RaceReset \/ RaceDaypart \/ RaceTick
SpecRace == InitRace /\ [][NextRace]_vars

\* ------------------------------------------------- the caller's instance
\* A caller calls track_spend on the instance it fetched and, when the call
\* raises, keeps the instance to call again; the instance carries what the
\* failed call assigned to it.
HeldTrackSpend(amount, fail) ==
    /\ proc[1].pc = "fetched"
    /\ Len(ledger) < MaxLedger
    /\ InRange(proc[1].obj.daily_spend + amount)
    /\ InRange(proc[1].obj.monthly_spend + amount)
    /\ \E r \in {track_spend(Store(db, ledger), Head(proc[1].todo), proc[1].obj,
                             amount, fail)} :
          /\ db' = r.camp
          /\ ledger' = r.led
          /\ last' = Call("track_spend", Head(proc[1].todo), amount, fail, r)
          /\ proc' = IF r.raised THEN [proc EXCEPT ![1].obj = r.obj]
                     ELSE [proc EXCEPT ![1] = Idle]
    /\ marks' = Marks(db')
    /\ UNCHANGED <<brand, now>>

Get == \E c \in Campaigns : Fetch(1, c)
Held == \E a \in Positive, fail \in TrackFailures : HeldTrackSpend(a, fail)
NextHeld == Get \/ Held
SpecHeld == Init /\ [][NextHeld]_vars

\* ----------------------------------------------------------------- claims
TrackSpendStep == last'.op = "track_spend"
PauseStep == last'.op = "pause_if_budget_exceeded"
Appended == SubSeq(ledger', Len(ledger) + 1, Len(ledger'))
Exceeds(row) ==
    row.daily_spend > brand.daily_budget \/ row.monthly_spend > brand.monthly_budget

\* C1: a successful track_spend with a non-negative amount a adds exactly a to
\* the persisted daily_spend and monthly_spend and appends exactly one
\* SpendRecord whose before-snapshots are the counters before the call and
\* whose after-snapshots are before + a.
C1_TrackSpendAddsAndRecords ==
    [][(TrackSpendStep /\ ~last'.raised /\ last'.amount >= 0) =>
          LET c == last'.c
              a == last'.amount
              rec == ledger'[Len(ledger')]
          IN /\ db'[c].daily_spend = db[c].daily_spend + a
             /\ db'[c].monthly_spend = db[c].monthly_spend + a
             /\ Len(ledger') = Len(ledger) + 1
             /\ SubSeq(ledger', 1, Len(ledger)) = ledger
             /\ rec.campaign = c
             /\ rec.amount = a
             /\ rec.daily_spend_before = db[c].daily_spend
             /\ rec.monthly_spend_before = db[c].monthly_spend
             /\ rec.daily_spend_after = db[c].daily_spend + a
             /\ rec.monthly_spend_after = db[c].monthly_spend + a]_vars

\* A second spend of 2 on a campaign that stood at (1, 1).
C1_Witness ==
    /\ last.op = "track_spend" /\ ~last.raised /\ last.amount = 2
    /\ Len(ledger) = 2
    /\ ledger[2].daily_spend_before = 1 /\ ledger[2].daily_spend_after = 3
    /\ db[1].daily_spend = 3 /\ db[1].monthly_spend = 3

\* C2: a track_spend that fails at the counter save, the ledger insert or the
\* threshold check re-raises and leaves the campaign row and the ledger as they
\* were; a track_spend step either changes nothing or updates the counters
\* together with exactly one new record.
C2_TrackSpendRollsBack ==
    [][TrackSpendStep =>
          LET c == last'.c
              reached == \/ last'.fail \in {"save", "create"}
                         \/ /\ last'.fail = "pause"
                            /\ Exceeds([daily_spend |-> db[c].daily_spend + last'.amount,
                                        monthly_spend |-> db[c].monthly_spend + last'.amount])
          IN /\ reached <=> last'.raised
             /\ last'.raised => db' = db /\ ledger' = ledger
             /\ ~last'.raised => Len(ledger') = Len(ledger) + 1]_vars

\* The threshold check raised after the counters and the record were written:
\* the instance holds the new counters, the database the old ones.
C2_Witness ==
    /\ last.op = "track_spend" /\ last.raised /\ last.fail = "pause"
    /\ last.amount > 0
    /\ last.obj.daily_spend = db[1].daily_spend + last.amount
    /\ Exceeds(last.obj) /\ ~last.obj.is_active
    /\ db[1].is_active
    /\ ledger = <<>>

\* C3: track_spend with a negative amount is rejected with an error and changes
\* neither the campaign nor the ledger.
C3_NegativeAmountRejected ==
    [][(TrackSpendStep /\ last'.amount < 0) =>
          last'.raised /\ db' = db /\ ledger' = ledger]_vars

\* C4: pause_if_budget_exceeded on an active campaign leaves it inactive, and
\* returns true, exactly when daily_spend > daily_budget or
\* monthly_spend > monthly_budget; at equality it stays active.
C4_PausePredicateExact ==
    [][(PauseStep /\ ~last'.raised /\ db[last'.c].is_active) =>
          LET c == last'.c
          IN /\ ~db'[c].is_active <=> Exceeds(db[c])
             /\ last'.ret <=> Exceeds(db[c])]_vars

\* The check ran on an active campaign whose daily spend equals the budget.
C4_Witness ==
    /\ last.op = "pause_if_budget_exceeded" /\ ~last.raised /\ ~last.ret
    /\ db[1].daily_spend = brand.daily_budget
    /\ db[1].monthly_spend <= brand.monthly_budget
    /\ db[1].is_active

\* C5: after a successful track_spend the persisted campaign is never active
\* with a counter above its budget, and an active campaign whose new counters
\* are within both budgets stays active.
C5_SpendPausesAtomically ==
    [][(TrackSpendStep /\ ~last'.raised) =>
          LET c == last'.c
          IN /\ Exceeds(db'[c]) => ~db'[c].is_active
             /\ (db[c].is_active /\ ~Exceeds(db'[c])) => db'[c].is_active]_vars

\* Budgets (2, 3): spend 1 leaves (1, 1) active, spend 2 gives (3, 3) paused.
C5_Witness ==
    /\ last.op = "track_spend" /\ ~last.raised
    /\ Len(ledger) = 2
    /\ ledger[1].daily_spend_before = 0 /\ ledger[1].daily_spend_after = 1
    /\ ledger[2].daily_spend_after = 3
    /\ db[1].daily_spend = 3 /\ ~db[1].is_active

\* C6: pause_if_budget_exceeded returns true only when the campaign went from
\* active to paused; on an already paused campaign it changes nothing, counts
\* no pause and returns false.
C6_PauseIdempotent ==
    [][PauseStep =>
          LET c == last'.c
          IN /\ last'.ret => (db[c].is_active /\ ~db'[c].is_active)
             /\ ~db[c].is_active =>
                   /\ db' = db
                   /\ ~last'.ret
                   /\ last'.m.campaigns_paused = 0]_vars

RECURSIVE SumDeltas(_, _, _, _)
\* The sum, over the records of campaign c at positions above from, of the
\* change they record on a counter (its after-snapshot less its before).
SumDeltas(led, c, from, counter) ==
    IF Len(led) <= from
    THEN 0
    ELSE LET rec == led[Len(led)]
             delta == IF rec.campaign # c THEN 0
                      ELSE IF counter = "daily"
                           THEN rec.daily_spend_after - rec.daily_spend_before
                           ELSE rec.monthly_spend_after - rec.monthly_spend_before
         IN delta + SumDeltas(SubSeq(led, 1, Len(led) - 1), c, from, counter)

\* C7: no update is lost when operations race on one campaign: every committed
\* track_spend adds its amount to the persisted counters as they stand when it
\* commits, whatever was committed since the caller loaded the campaign (two
\* racing spends a and b give before + a + b).
C7_NoLostUpdate ==
    [][(TrackSpendStep /\ ~last'.raised) =>
          LET c == last'.c
          IN /\ db'[c].daily_spend = db[c].daily_spend + last'.amount
             /\ db'[c].monthly_spend = db[c].monthly_spend + last'.amount]_vars

\* C8: each campaign's daily_spend is the sum of the ledger deltas recorded
\* since its last daily reset, and its monthly_spend the sum of those recorded
\* since its last monthly reset.
C8_CountersMatchLedger ==
    \A c \in Campaigns :
       /\ db[c].daily_spend = SumDeltas(ledger, c, marks[c].daily, "daily")
       /\ db[c].monthly_spend = SumDeltas(ledger, c, marks[c].monthly, "monthly")

\* C9: whenever the persisted is_active of a campaign goes from false to true,
\* a reset or the dayparting sweep made the change and the persisted counters
\* are within both budgets right after it.
C9_ReactivationWithinBudget ==
    [][\A c \in Campaigns :
          (~db[c].is_active /\ db'[c].is_active) =>
             /\ last'.op \in {"reset_daily_spend", "reset_monthly_spend",
                              "enforce_dayparting"}
             /\ ~Exceeds(db'[c])]_vars

\* C10: a reset_daily_spend run leaves every campaign whose last_daily_reset
\* is already today unchanged and appends no ledger record for it.
C10_DailyResetIdempotent ==
    [][last'.op = "reset_daily_spend" =>
          \A c \in Campaigns :
             db[c].last_daily_reset = today(now) =>
                /\ db'[c] = db[c]
                /\ \A i \in DOMAIN Appended : Appended[i].campaign # c]_vars

\* A retried reset on a campaign that was reset today and has since spent past
\* its daily budget and been paused.
C10_Witness ==
    /\ last.op = "reset_daily_spend" /\ ~last.raised
    /\ db[1].last_daily_reset = today(now)
    /\ db[1].daily_spend > brand.daily_budget
    /\ ~db[1].is_active

\* The calendar month a day falls in, counted from the first month.
MonthOf(d) == (d - 1) \div DaysPerMonth
\* A reset run in which no audit insert was made to fail and no save raised.
ResetStep(op) == last'.op = op /\ ~last'.raised /\ last'.fail # "audit"

\* C11: reset_monthly_spend is keyed on the month: a run leaves a campaign that
\* was already reset in the current month unchanged and appends no record for
\* it, and zeroes monthly_spend of every campaign whose last monthly reset is
\* absent or lies in an earlier month, marking it with the month's first day.
C11_MonthlyResetOncePerMonth ==
    [][last'.op = "reset_monthly_spend" =>
          \A c \in Campaigns :
             LET marker == db[c].last_monthly_reset
                 done == marker # NULL /\ MonthOf(marker) = MonthOf(today(now))
             IN /\ done => /\ db'[c] = db[c]
                           /\ \A i \in DOMAIN Appended : Appended[i].campaign # c
                /\ (~done /\ ~last'.raised /\ last'.fail # "audit") =>
                      /\ db'[c].monthly_spend = 0
                      /\ db'[c].last_monthly_reset # NULL
                      /\ MonthOf(db'[c].last_monthly_reset) = MonthOf(today(now))
                      /\ db'[c].last_monthly_reset <= today(now)
                      /\ MonthOf(db'[c].last_monthly_reset - 1) # MonthOf(today(now))
                         \/ db'[c].last_monthly_reset = 1]_vars

\* The monthly reset ran again in a later month, after the reset of the first
\* month had cleared a monthly spend of 4.
C11_Witness ==
    /\ last.op = "reset_monthly_spend" /\ ~last.raised
    /\ MonthOf(today(now)) > 0
    /\ db[1].last_monthly_reset = today(now) - ((today(now) - 1) % DaysPerMonth)
    /\ db[1].monthly_spend = 0
    /\ \E i \in DOMAIN ledger : ledger[i].type = "budget_reset" /\ ledger[i].amount = 4

\* C12: a reset does not reactivate a campaign that is over the other budget:
\* reset_daily_spend clears daily_spend of an inactive campaign whose
\* monthly_spend exceeds the monthly budget and leaves it inactive, and
\* reset_monthly_spend does the same for one whose daily_spend exceeds the
\* daily budget.
C12_ResetKeepsOverBudgetPaused ==
    [][\A c \in Campaigns :
          /\ (/\ ResetStep("reset_daily_spend")
              /\ db[c].last_daily_reset # today(now)
              /\ ~db[c].is_active
              /\ db[c].monthly_spend > brand.monthly_budget) =>
                 (~db'[c].is_active /\ db'[c].daily_spend = 0)
          /\ (/\ ResetStep("reset_monthly_spend")
              /\ (db[c].last_monthly_reset = NULL
                  \/ MonthOf(db[c].last_monthly_reset) # MonthOf(today(now)))
              /\ ~db[c].is_active
              /\ db[c].daily_spend > brand.daily_budget) =>
                 (~db'[c].is_active /\ db'[c].monthly_spend = 0)]_vars

\* The daily reset cleared the daily spend of a paused campaign whose monthly
\* spend is over the monthly budget.
C12_Witness ==
    /\ last.op = "reset_daily_spend" /\ ~last.raised
    /\ db[1].last_daily_reset = today(now)
    /\ db[1].daily_spend = 0
    /\ db[1].monthly_spend > brand.monthly_budget
    /\ ~db[1].is_active

\* C13: for every campaign with a stale marker, reset_daily_spend sets
\* daily_spend to 0 and last_daily_reset to today, keeps monthly_spend, and
\* leaves the campaign active exactly when it was active or its post-reset
\* counters are within both budgets; reset_monthly_spend does the same on
\* monthly_spend.
C13_ResetZeroesAndReactivates ==
    [][\A c \in Campaigns :
          /\ (ResetStep("reset_daily_spend") /\ db[c].last_daily_reset # today(now)) =>
                /\ db'[c].daily_spend = 0
                /\ db'[c].last_daily_reset = today(now)
                /\ db'[c].monthly_spend = db[c].monthly_spend
                /\ db'[c].is_active <=>
                      \/ db[c].is_active
                      \/ /\ 0 <= brand.daily_budget
                         /\ db[c].monthly_spend <= brand.monthly_budget
          /\ (/\ ResetStep("reset_monthly_spend")
              /\ (db[c].last_monthly_reset = NULL
                  \/ MonthOf(db[c].last_monthly_reset) # MonthOf(today(now)))) =>
                /\ db'[c].monthly_spend = 0
                /\ db'[c].daily_spend = db[c].daily_spend
                /\ db'[c].is_active <=>
                      \/ db[c].is_active
                      \/ /\ db[c].daily_spend <= brand.daily_budget
                         /\ 0 <= brand.monthly_budget]_vars

\* The daily reset reactivated a paused campaign that stood at (2, 2), within
\* both budgets once its daily spend is cleared, and recorded the reset.
C13_Witness ==
    /\ last.op = "reset_daily_spend" /\ ~last.raised
    /\ last.m.campaigns_reactivated = 1
    /\ Len(ledger) = 1 /\ ledger[1].type = "budget_reset" /\ ledger[1].amount = 2
    /\ db[1].daily_spend = 0 /\ db[1].monthly_spend = 2
    /\ db[1].is_active

\* C14: a stored SpendRecord changes in no field other than description:
\* after any save of a record, with or without update_fields, every other
\* field of every stored record is as it was, and a save that raises changes
\* nothing.
C14_SpendRecordWriteOnce ==
    [][last'.op = "SpendRecord.save" =>
          /\ Len(ledger') = Len(ledger)
          /\ \A i \in DOMAIN ledger :
                [ledger'[i] EXCEPT !.description = ""] =
                   [ledger[i] EXCEPT !.description = ""]
          /\ last'.raised => ledger' = ledger]_vars

\* C15: the core operations only append to the ledger: every step of
\* track_spend, the periodic check, the resets and the dayparting sweep leaves
\* every existing SpendRecord in place with all its fields.
C15_LedgerAppendOnly ==
    [][/\ Len(ledger') >= Len(ledger)
       /\ SubSeq(ledger', 1, Len(ledger)) = ledger]_vars

\* A reset appended its audit record after the record of a spend event.
C15_Witness ==
    /\ Len(ledger) = 2
    /\ ledger[1].type = "impression"
    /\ ledger[2].type = "budget_reset"
    /\ last.op \in {"reset_daily_spend", "reset_monthly_spend"}

\* The interval between two checks of a campaign: its override, or the default.
Interval(row) ==
    IF row.budget_check_frequency_minutes = NULL
    THEN DEFAULT_BUDGET_CHECK_FREQUENCY
    ELSE row.budget_check_frequency_minutes
NotYetDue(row) ==
    row.last_budget_check # NULL /\ now < row.last_budget_check + Interval(row)
CheckStep == last'.op = "check_spend_and_pause_service"

\* C16: a run of check_spend_and_pause_service leaves every field of a
\* campaign that is not yet due (now < last_budget_check + interval)
\* unchanged, is_active and last_budget_check included, even if the campaign
\* is over budget.
C16_NotDueSkipped ==
    [][CheckStep =>
          \A c \in Campaigns : NotYetDue(db[c]) => db'[c] = db[c]]_vars

\* The check ran one tick after the last check of an active, over-budget
\* campaign that has an override of two ticks.
C16_Witness ==
    /\ last.op = "check_spend_and_pause_service" /\ ~last.raised
    /\ db[1].budget_check_frequency_minutes = 2
    /\ db[1].last_budget_check # NULL
    /\ now = db[1].last_budget_check + 1
    /\ db[1].is_active /\ Exceeds(db[1])
    /\ last.m.campaigns_processed = 1

\* C17: in a run of check_spend_and_pause_service that does not raise, an
\* active campaign is due exactly when last_budget_check is absent or
\* now >= last_budget_check + interval; a due campaign is paused exactly when
\* it is over budget and its last_budget_check becomes now either way, and a
\* campaign that is not due is left as it was.
C17_DueCheckedAndStamped ==
    [][(CheckStep /\ ~last'.raised) =>
          \A c \in Campaigns :
             db[c].is_active =>
                IF NotYetDue(db[c])
                THEN db'[c] = db[c]
                ELSE /\ db'[c].last_budget_check = now
                     /\ db'[c].is_active <=> ~Exceeds(db[c])
                     /\ db'[c].daily_spend = db[c].daily_spend
                     /\ db'[c].monthly_spend = db[c].monthly_spend]_vars

\* A run at time 2 checked a campaign that is within its budgets and has an
\* override of two ticks, stamped it and left it active.
C17_Witness ==
    /\ last.op = "check_spend_and_pause_service" /\ ~last.raised
    /\ db[1].budget_check_frequency_minutes = 2
    /\ now = 2
    /\ db[1].last_budget_check = now
    /\ db[1].is_active /\ ~Exceeds(db[1])

\* C18: a run of check_spend_and_pause_service that does not raise processes
\* every campaign that was active when it started: campaigns_processed is
\* their number, and each of them that was due and over budget is paused.
C18_CheckCoversAllActive ==
    [][(CheckStep /\ ~last'.raised) =>
          /\ last'.m.campaigns_processed =
                Cardinality({c \in Campaigns : db[c].is_active})
          /\ \A c \in Campaigns :
                (db[c].is_active /\ ~NotYetDue(db[c]) /\ Exceeds(db[c])) =>
                   ~db'[c].is_active]_vars

\* C19: a run of reset_daily_spend isolates failures per campaign: the
\* campaigns with a stale marker that the run leaves unreset are no more than
\* the failures it counted, so every campaign after a failing one is still
\* reset in the same run.
C19_BatchIsolatesFailures ==
    [][last'.op = "reset_daily_spend" =>
          Cardinality({c \in Campaigns :
                          /\ db[c].last_daily_reset # today(now)
                          /\ db'[c].last_daily_reset # today(now)})
             <= last'.m.errors]_vars

\* C20: is_now_in_window(window) is true exactly when the weekday of now is
\* one of the window's days and the time of now lies in [start, end] when
\* start <= end, or in [start, midnight) or [midnight, end] when start > end,
\* with both bounds included.
C20_WindowMembership ==
    last.op = "is_now_in_window" =>
       LET window == last.obj
           start == window.start_time
           end == window.end_time
           time == time_of(now)
           day == weekday(today(now))
       IN last.ret <=>
             /\ \E i \in DOMAIN window.days_of_week : window.days_of_week[i] = day
             /\ \/ start <= end /\ start <= time /\ time <= end
                \/ start > end /\ (time >= start \/ time <= end)

\* The window from the last tick of the day to the first, Mondays only, asked
\* at the first tick of a Monday.
C20_Witness ==
    /\ last.op = "is_now_in_window" /\ last.ret
    /\ last.obj.start_time = TicksPerDay - 1 /\ last.obj.end_time = 0
    /\ last.obj.days_of_week = <<"mon">>
    /\ time_of(now) = 0 /\ weekday(today(now)) = "mon"

DaypartStep == last'.op = "enforce_dayparting"
\* Whether now is inside the window of the schedule of a campaign row.
Inside(row) ==
    is_now_in_window(window_of(DaypartingSchedule[row.dayparting_schedule]), now)

\* C21: a run of enforce_dayparting that does not raise leaves every campaign
\* that has a schedule active exactly when now is inside its window and the
\* campaign was active or is within both budgets; it changes no other field,
\* and it changes no campaign without a schedule.
C21_DaypartingRule ==
    [][(DaypartStep /\ ~last'.raised) =>
          \A c \in Campaigns :
             IF db[c].dayparting_schedule = NULL
             THEN db'[c] = db[c]
             ELSE /\ db'[c].is_active <=>
                        /\ Inside(db[c])
                        /\ \/ db[c].is_active
                           \/ /\ db[c].daily_spend <= brand.daily_budget
                              /\ db[c].monthly_spend <= brand.monthly_budget
                  /\ [db'[c] EXCEPT !.is_active = TRUE] =
                        [db[c] EXCEPT !.is_active = TRUE]]_vars

\* Inside the window the sweep reactivated a paused campaign that is within
\* both budgets after a spend.
C21_Witness ==
    /\ last.op = "enforce_dayparting" /\ ~last.raised
    /\ last.m.campaigns_reactivated = 1
    /\ db[1].dayparting_schedule # NULL
    /\ Inside(db[1])
    /\ db[1].is_active
    /\ db[1].daily_spend > 0
    /\ Len(ledger) > 0

\* C30: a run of enforce_dayparting right after a run at the same instant, with
\* nothing in between, changes no campaign and counts no pause and no
\* reactivation.
C30_DaypartingIdempotent ==
    [][(DaypartStep /\ ~last'.raised
        /\ last.op = "enforce_dayparting" /\ ~last.raised) =>
          /\ db' = db
          /\ ledger' = ledger
          /\ last'.m.campaigns_paused = 0
          /\ last'.m.campaigns_reactivated = 0]_vars

\* The second of two sweeps outside the window found the campaign, which is
\* within both budgets, already paused.
C30_Witness ==
    /\ last.op = "enforce_dayparting" /\ ~last.raised
    /\ last.m.campaigns_processed = 1
    /\ last.m.campaigns_paused = 0
    /\ db[1].dayparting_schedule # NULL
    /\ ~Inside(db[1])
    /\ ~db[1].is_active
    /\ db[1].daily_spend = 0 /\ db[1].monthly_spend = 0

\* C22: track_spend does not deduplicate: a successful call that repeats the
\* previous successful call (same campaign, amount and reference id) appends a
\* second record and leaves both counters at their value before the first
\* call plus twice the amount.
C22_ReplayCountsTwice ==
    [][(/\ TrackSpendStep /\ ~last'.raised
        /\ last.op = "track_spend" /\ ~last.raised
        /\ last.c = last'.c /\ last.amount = last'.amount) =>
          LET c == last'.c
              a == last'.amount
              n == Len(ledger')
          IN /\ n = Len(ledger) + 1 /\ n >= 2
             /\ ledger'[n].amount = a /\ ledger'[n - 1].amount = a
             /\ ledger'[n].campaign = c /\ ledger'[n - 1].campaign = c
             /\ ledger'[n].reference_id = ledger'[n - 1].reference_id
             /\ db'[c].daily_spend = ledger'[n - 1].daily_spend_before + 2 * a
             /\ db'[c].monthly_spend = ledger'[n - 1].monthly_spend_before + 2 * a]_vars

\* The spend event of 1 was recorded twice on a new campaign.
C22_Witness ==
    /\ last.op = "track_spend" /\ ~last.raised /\ last.amount = 1
    /\ Len(ledger) = 2
    /\ ledger[1].amount = 1 /\ ledger[2].amount = 1
    /\ ledger[1].reference_id = ledger[2].reference_id
    /\ ledger[1].daily_spend_before = 0
    /\ db[1].daily_spend = 2 /\ db[1].monthly_spend = 2

\* The records a step appended for campaign c.
AppendedFor(c) == SelectSeq(Appended, LAMBDA rec : rec.campaign = c)

\* C23: for each campaign it resets, reset_daily_spend appends no record when
\* the daily spend was zero and otherwise exactly one budget_reset record with
\* amount and daily_spend_before equal to the daily spend before the reset,
\* daily_spend_after 0 and both monthly snapshots equal to monthly_spend;
\* reset_monthly_spend does the same on monthly_spend.
C23_ResetAuditRecord ==
    [][\A c \in Campaigns :
          /\ (ResetStep("reset_daily_spend") /\ db[c].last_daily_reset # today(now)) =>
                IF db[c].daily_spend > 0
                THEN /\ Len(AppendedFor(c)) = 1
                     /\ AppendedFor(c)[1].type = "budget_reset"
                     /\ AppendedFor(c)[1].amount = db[c].daily_spend
                     /\ AppendedFor(c)[1].daily_spend_before = db[c].daily_spend
                     /\ AppendedFor(c)[1].daily_spend_after = 0
                     /\ AppendedFor(c)[1].monthly_spend_before = db[c].monthly_spend
                     /\ AppendedFor(c)[1].monthly_spend_after = db[c].monthly_spend
                ELSE AppendedFor(c) = <<>>
          /\ (/\ ResetStep("reset_monthly_spend")
              /\ (db[c].last_monthly_reset = NULL
                  \/ MonthOf(db[c].last_monthly_reset) # MonthOf(today(now)))) =>
                IF db[c].monthly_spend > 0
                THEN /\ Len(AppendedFor(c)) = 1
                     /\ AppendedFor(c)[1].type = "budget_reset"
                     /\ AppendedFor(c)[1].amount = db[c].monthly_spend
                     /\ AppendedFor(c)[1].monthly_spend_before = db[c].monthly_spend
                     /\ AppendedFor(c)[1].monthly_spend_after = 0
                     /\ AppendedFor(c)[1].daily_spend_before = db[c].daily_spend
                     /\ AppendedFor(c)[1].daily_spend_after = db[c].daily_spend
                ELSE AppendedFor(c) = <<>>]_vars

\* C24: when the insert of the audit record fails in a reset run in which no
\* save raises, the reset of every campaign with a stale marker is still
\* committed: its counter is zero, its marker is stamped and it is active if
\* it was active or is within both budgets.
C24_AuditFailureKeepsReset ==
    [][\A c \in Campaigns :
          /\ (/\ last'.op = "reset_daily_spend"
              /\ last'.fail = "audit" /\ ~last'.raised
              /\ db[c].last_daily_reset # today(now)) =>
                /\ db'[c].daily_spend = 0
                /\ db'[c].last_daily_reset = today(now)
                /\ db'[c].is_active <=>
                      (db[c].is_active \/ db[c].monthly_spend <= brand.monthly_budget)
          /\ (/\ last'.op = "reset_monthly_spend"
              /\ last'.fail = "audit" /\ ~last'.raised
              /\ (db[c].last_monthly_reset = NULL
                  \/ MonthOf(db[c].last_monthly_reset) # MonthOf(today(now)))) =>
                /\ db'[c].monthly_spend = 0
                /\ db'[c].last_monthly_reset # NULL
                /\ db'[c].is_active <=>
                      (db[c].is_active \/ db[c].daily_spend <= brand.daily_budget)]_vars

\* C25: the daily reset can be retried after a run that failed partway: a run
\* leaves every campaign already reset today as it is, with the spend recorded
\* on it since, and appends no record for it; it zeroes each campaign it
\* resets and appends at most one record for it; a run that raises keeps the
\* resets it made; and after a run that does not raise every campaign is
\* marked as reset today.
C25_ResetRetryCompletes ==
    [][(last'.op = "reset_daily_spend" /\ last'.fail # "audit") =>
          /\ \A c \in Campaigns :
                IF db[c].last_daily_reset = today(now)
                THEN db'[c] = db[c] /\ AppendedFor(c) = <<>>
                ELSE /\ Len(AppendedFor(c)) <= 1
                     /\ \/ db'[c] = db[c] /\ AppendedFor(c) = <<>> /\ last'.raised
                        \/ /\ db'[c].daily_spend = 0
                           /\ db'[c].last_daily_reset = today(now)
          /\ ~last'.raised =>
                \A c \in Campaigns : db'[c].last_daily_reset = today(now)]_vars

\* A retry completed by resetting one campaign only: the other had been reset
\* by the run that failed, and the spend recorded on it since is still there.
C25_Witness ==
    /\ last.op = "reset_daily_spend" /\ ~last.raised /\ last.fail = "none"
    /\ last.m.campaigns_reset = 1
    /\ \A c \in Campaigns : db[c].last_daily_reset = today(now)
    /\ db[1].daily_spend > 0
    /\ db[2].daily_spend = 0
    /\ Len(ledger) = 2
    /\ ledger[1].type = "impression" /\ ledger[1].campaign = 1
    /\ ledger[2].type = "budget_reset" /\ ledger[2].campaign = 2

TaskStep == last'.op \in Tasks
\* The retries the request that is executed has made so far.
Retries == IF proc[1].pc = "retry" THEN proc[1].retries ELSE 0

C27_SummaryEmitted ==
    [][(TaskStep /\ ~last'.raised) =>
          \/ last'.ret # NULL
          \/ \E i \in DOMAIN last'.log :
                last'.log[i] = log_summary(last'.op, last'.m)]_vars

\* The campaigns a reset run reset: those whose marker it changed.
WasReset(c) ==
    IF last'.op = "reset_daily_spend"
    THEN db'[c].last_daily_reset # db[c].last_daily_reset
    ELSE db'[c].last_monthly_reset # db[c].last_monthly_reset

\* C28: after reset_daily_spend or reset_monthly_spend, campaigns_reset is
\* the number of campaigns with a stale marker that the run reset, and
\* campaigns_reactivated the number of campaigns that went from inactive to
\* active in the run.
C28_ResetMetricsMatch ==
    [][last'.op \in {"reset_daily_spend", "reset_monthly_spend"} =>
          /\ last'.m.campaigns_reset =
                Cardinality({c \in Campaigns : WasReset(c)})
          /\ last'.m.campaigns_reactivated =
                Cardinality({c \in Campaigns :
                                ~db[c].is_active /\ db'[c].is_active})]_vars

\* C29: pause_if_budget_exceeded writes no column of the campaign but
\* is_active, whatever the instance it is given holds, writes no other row
\* and no record, and when it raises the stored row is as it was.
C29_PauseWritesOnlyIsActive ==
    [][PauseStep =>
          /\ \A c \in Campaigns :
                /\ db'[c].daily_spend = db[c].daily_spend
                /\ db'[c].monthly_spend = db[c].monthly_spend
                /\ db'[c].last_daily_reset = db[c].last_daily_reset
                /\ db'[c].last_monthly_reset = db[c].last_monthly_reset
                /\ db'[c].last_budget_check = db[c].last_budget_check
                /\ db'[c].is_active => db[c].is_active
          /\ ledger' = ledger
          /\ last'.raised => db' = db]_vars

\* The seeded campaign (3, 3, active) was paused through an instance holding
\* other counters and a check stamp, and its row kept its own.
C29_Witness ==
    /\ last.op = "pause_if_budget_exceeded" /\ last.ret /\ ~last.raised
    /\ last.obj.daily_spend = 4 /\ last.obj.monthly_spend = 0
    /\ last.obj.last_budget_check = 1
    /\ db[1].daily_spend = 3 /\ db[1].monthly_spend = 3
    /\ db[1].last_budget_check = NULL
    /\ ~db[1].is_active

\* C31: with the periodic check running again and again and time advancing,
\* a campaign that is active and over its daily or its monthly budget is
\* eventually paused, whatever its frequency override and check stamp.
C31_ThrottleOnlyDelays ==
    (db[1].is_active /\ (db[1].daily_spend > brand.daily_budget
                         \/ db[1].monthly_spend > brand.monthly_budget))
        ~> ~db[1].is_active

\* The check paused a campaign with an override of two ticks, two ticks
\* after its last check stamp: the run one tick earlier had skipped it.
C31_Witness ==
    /\ last.op = "check_spend_and_pause_service" /\ ~last.raised
    /\ last.m.campaigns_paused = 1
    /\ db[1].budget_check_frequency_minutes = 2
    /\ now = 2 /\ db[1].last_budget_check = 2
    /\ ~db[1].is_active
    /\ ledger = <<>>

\* C32: a batch run that fails at a campaign counts that failure once: its
\* errors counter is 1 after a run that raised (the run stops at the first
\* failing campaign) and 0 after a run that did not.
C32_ErrorCountedOnce ==
    [][last'.op \in {"check_spend_and_pause_service", "reset_daily_spend",
                     "reset_monthly_spend", "enforce_dayparting"} =>
          last'.m.errors = (IF last'.raised THEN 1 ELSE 0)]_vars

\* C33: the interval of a campaign is its budget_check_frequency_minutes
\* whenever the field is set, 0 included, and the default only when it is
\* unset: a run of the periodic check pauses every active campaign over
\* budget whose interval, so computed, has passed since its last check, and
\* leaves every campaign alone whose interval has not passed.
C33_IntervalIsOwnFrequency ==
    [][(CheckStep /\ ~last'.raised) =>
          \A c \in Campaigns :
             LET own == db[c].budget_check_frequency_minutes
                 interval == IF own = NULL THEN DEFAULT_BUDGET_CHECK_FREQUENCY ELSE own
                 due == \/ db[c].last_budget_check = NULL
                        \/ now >= db[c].last_budget_check + interval
             IN /\ (db[c].is_active /\ due /\ Exceeds(db[c])) => ~db'[c].is_active
                /\ ~due => db'[c] = db[c]]_vars

\* C34: when the operations run one after the other from a state in which
\* every active campaign is within both budgets, no campaign is ever active
\* with daily_spend > daily_budget or monthly_spend > monthly_budget.
C34_ActiveWithinBudgets ==
    \A c \in Campaigns :
        db[c].is_active => /\ db[c].daily_spend <= brand.daily_budget
                           /\ db[c].monthly_spend <= brand.monthly_budget

\* A campaign that was active at its budgets was reset for the day, went
\* over its monthly budget alone by a later spend, and was paused by it.
C34_Witness ==
    /\ last.op = "track_spend" /\ ~last.raised
    /\ Len(ledger) = 2
    /\ ledger[1].type = "budget_reset" /\ ledger[2].type = "impression"
    /\ db[1].daily_spend <= brand.daily_budget
    /\ db[1].monthly_spend > brand.monthly_budget
    /\ ~db[1].is_active
    /\ ledger[2].monthly_spend_before <= brand.monthly_budget

\* C35: track_spend on a paused campaign still adds the amount to both
\* counters and appends one record, and neither track_spend nor the periodic
\* check ever turns a paused campaign active.
C35_SpendIgnoresIsActive ==
    [][/\ (TrackSpendStep /\ ~last'.raised /\ ~db[last'.c].is_active) =>
             /\ db'[last'.c].daily_spend = db[last'.c].daily_spend + last'.amount
             /\ db'[last'.c].monthly_spend = db[last'.c].monthly_spend + last'.amount
             /\ Len(Appended) = 1
             /\ Appended[1].campaign = last'.c
             /\ Appended[1].amount = last'.amount
       /\ (TrackSpendStep \/ CheckStep) =>
             \A c \in Campaigns : ~db[c].is_active => ~db'[c].is_active]_vars

\* A spend of 1 was recorded on the campaign seeded as paused at (2, 2): it
\* is at (3, 3), still paused, with the one record.
C35_Witness ==
    /\ last.op = "track_spend" /\ ~last.raised /\ last.amount = 1
    /\ Len(ledger) = 1
    /\ ledger[1].daily_spend_before = 2 /\ ledger[1].monthly_spend_before = 2
    /\ db[1].daily_spend = 3 /\ db[1].monthly_spend = 3
    /\ ~db[1].is_active

\* C36: the resets decide reactivation without the dayparting schedule: a
\* paused campaign that has a schedule, at a time outside its window, is made
\* active by reset_daily_spend when its monthly spend is within the monthly
\* budget, and by reset_monthly_spend when its daily spend is within the
\* daily budget.
C36_ResetIgnoresDayparting ==
    [][\A c \in Campaigns :
          (/\ db[c].dayparting_schedule # NULL
           /\ ~Inside(db[c])
           /\ ~db[c].is_active) =>
             /\ (/\ ResetStep("reset_daily_spend")
                 /\ db[c].last_daily_reset # today(now)
                 /\ db[c].monthly_spend <= brand.monthly_budget) => db'[c].is_active
             /\ (/\ ResetStep("reset_monthly_spend")
                 /\ (db[c].last_monthly_reset = NULL
                     \/ MonthOf(db[c].last_monthly_reset) # MonthOf(today(now)))
                 /\ db[c].daily_spend <= brand.daily_budget) => db'[c].is_active]_vars

\* The campaign seeded active with no spend was paused by the dayparting
\* sweep outside its window and reactivated there by the daily reset: it is
\* active outside its window.
C36_Witness ==
    /\ last.op = "reset_daily_spend" /\ ~last.raised
    /\ last.m.campaigns_reactivated = 1
    /\ db[1].dayparting_schedule # NULL /\ ~Inside(db[1])
    /\ db[1].is_active
    /\ db[1].daily_spend = 0 /\ db[1].monthly_spend = 0
    /\ ledger = <<>>

\* C37: a track_spend that raised leaves nothing for the call that repeats
\* it: when the same call on the same campaign object then succeeds, the
\* stored counters are the stored values plus the amount, and the one record
\* appended has those stored values as its before-snapshots.
C37_FailedSpendLeavesNothing ==
    [][(/\ TrackSpendStep /\ ~last'.raised
        /\ last.op = "track_spend" /\ last.raised
        /\ proc[1].pc = "fetched"
        /\ last'.c = last.c /\ last'.amount = last.amount) =>
          /\ db'[last.c].daily_spend = db[last.c].daily_spend + last.amount
          /\ db'[last.c].monthly_spend = db[last.c].monthly_spend + last.amount
          /\ Len(Appended) = 1
          /\ Appended[1].daily_spend_before = db[last.c].daily_spend
          /\ Appended[1].monthly_spend_before = db[last.c].monthly_spend]_vars

\* C38: reset_daily_spend never changes monthly_spend, last_monthly_reset or
\* last_budget_check of a campaign and never makes an active campaign
\* inactive; reset_monthly_spend never changes daily_spend, last_daily_reset
\* or last_budget_check and never makes an active campaign inactive.
C38_ResetFrame ==
    [][\A c \in Campaigns :
          /\ last'.op = "reset_daily_spend" =>
                /\ db'[c].monthly_spend = db[c].monthly_spend
                /\ db'[c].last_monthly_reset = db[c].last_monthly_reset
                /\ db'[c].last_budget_check = db[c].last_budget_check
                /\ db[c].is_active => db'[c].is_active
          /\ last'.op = "reset_monthly_spend" =>
                /\ db'[c].daily_spend = db[c].daily_spend
                /\ db'[c].last_daily_reset = db[c].last_daily_reset
                /\ db'[c].last_budget_check = db[c].last_budget_check
                /\ db[c].is_active => db'[c].is_active]_vars

\* The monthly reset ran on the campaign seeded active at (3, 3), over its
\* daily budget, with a check stamp: the campaign keeps its daily spend, its
\* daily marker and its stamp, and is still active.
C38_Witness ==
    /\ last.op = "reset_monthly_spend" /\ ~last.raised
    /\ last.m.campaigns_reset = 1
    /\ db[1].monthly_spend = 0 /\ db[1].last_monthly_reset # NULL
    /\ db[1].daily_spend = 3 /\ db[1].daily_spend > brand.daily_budget
    /\ db[1].last_daily_reset = NULL
    /\ db[1].last_budget_check = 2
    /\ db[1].is_active

\* Whether the schedule names the weekday of now, surrounding whitespace
\* aside, and the time of now is between its start and end.
Allowed(sched) ==
    /\ \E i \in DOMAIN sched.days_of_week :
          /\ strip(sched.days_of_week[i]) = DAYS_OF_WEEK[((now \div TicksPerDay) % 7) + 1]
    /\ IF sched.start_time <= sched.end_time
       THEN sched.start_time <= now % TicksPerDay /\ now % TicksPerDay <= sched.end_time
       ELSE sched.start_time <= now % TicksPerDay \/ now % TicksPerDay <= sched.end_time

\* C39: enforce_dayparting allows a campaign on every weekday its schedule
\* names, names written with surrounding whitespace included, and on no other
\* day: a run leaves an active campaign active on an allowed day, reactivates
\* a paused one that is within its budgets, and pauses the campaign on a day
\* the schedule does not name.
C39_DaysWithWhitespace ==
    [][(DaypartStep /\ ~last'.raised) =>
          \A c \in Campaigns :
             db[c].dayparting_schedule # NULL =>
                LET sched == DaypartingSchedule[db[c].dayparting_schedule]
                IN IF Allowed(sched)
                   THEN db'[c].is_active <=>
                           \/ db[c].is_active
                           \/ /\ db[c].daily_spend <= brand.daily_budget
                              /\ db[c].monthly_spend <= brand.monthly_budget
                   ELSE ~db'[c].is_active]_vars

====
